---- MODULE Spec2Model ----
(***************************************************************************)
(* REKS payslip application (streamlit_payslip_generator_python_app.py).   *)
(*                                                                         *)
(* Text is a sequence of one-character strings, so that strip(), replace() *)
(* and float() can be computed character by character.  A float is a       *)
(* record [nan, c]: either NaN or an exact amount of c hundredths (the     *)
(* precision of every amount the model feeds in).                          *)
(***************************************************************************)
EXTENDS Integers, Sequences, FiniteSets, TLC

VARIABLES employees, payroll, nextId, clock, last, ui, conn, sess

vars == <<employees, payroll, nextId, clock, last, ui, conn, sess>>

(* ui: the secrets and the sidebar widgets of the Streamlit session;      *)
(* conn: the transaction open on the one cached connection; sess: where   *)
(* each caller of run_sql stands                                          *)
aux == <<ui, conn, sess>>

(* ------------------------------ bounds -------------------------------- *)
MaxStrLen == 3
MaxClock == 3
MaxDfRows == 2
MaxLegacyRows == 3

(* ------------------------- program constants -------------------------- *)
Decimals == 2

Scale == 100

Alphabet == {"1", "5", ".", ",", " ", "-", "a", "n"}

(* ------------------------------ floats -------------------------------- *)
F(c) == [nan |-> FALSE, c |-> c]

NaN == [nan |-> TRUE, c |-> 0]

FAdd(a, b) == IF a.nan \/ b.nan THEN NaN ELSE F(a.c + b.c)

FSub(a, b) == IF a.nan \/ b.nan THEN NaN ELSE F(a.c - b.c)

RECURSIVE FSum(_)
FSum(vs) == IF vs = <<>> THEN F(0) ELSE FAdd(FSum(SubSeq(vs, 1, Len(vs) - 1)), vs[Len(vs)])

(* ------------------------------- text --------------------------------- *)
Digits == <<"0", "1", "2", "3", "4", "5", "6", "7", "8", "9">>

IsDigit(ch) == \E d \in 1..10 : Digits[d] = ch

DigitVal(ch) == (CHOOSE d \in 1..10 : Digits[d] = ch) - 1

RECURSIVE IntStr(_)
IntStr(n) == IF n < 10 THEN <<Digits[n + 1]>> ELSE IntStr(n \div 10) \o <<Digits[(n % 10) + 1]>>

RECURSIVE DigitsVal(_)
DigitsVal(ds) == IF ds = <<>> THEN 0 ELSE 10 * DigitsVal(SubSeq(ds, 1, Len(ds) - 1)) + DigitVal(ds[Len(ds)])

RECURSIVE LStrip(_)
LStrip(s) == IF s # <<>> /\ s[1] = " " THEN LStrip(Tail(s)) ELSE s

RECURSIVE RStrip(_)
RStrip(s) == IF s # <<>> /\ s[Len(s)] = " " THEN RStrip(SubSeq(s, 1, Len(s) - 1)) ELSE s

Strip(s) == RStrip(LStrip(s))

RemoveCommas(s) == SelectSeq(s, LAMBDA ch : ch # ",")

(* str(Decimal): sign, integer digits, point, fraction digits. *)
DecimalStr(f) ==
    IF f.nan THEN <<"N", "a", "N">>
    ELSE LET a == IF f.c < 0 THEN -f.c ELSE f.c
             fr == IntStr(a % Scale)
         IN (IF f.c < 0 THEN <<"-">> ELSE <<>>) \o IntStr(a \div Scale) \o <<".">>
            \o (IF Len(fr) < Decimals THEN <<"0">> ELSE <<>>) \o fr

Lower(ch) == IF ch = "N" THEN "n" ELSE ch

(* float(str): surrounding whitespace, optional sign, then "nan" (any     *)
(* case) or digits with at most one point and at least one digit.         *)
(* Fraction digits past the second are below the model's precision.       *)
DotAt(body) ==
    IF \A i \in 1..Len(body) : body[i] # "." THEN Len(body) + 1
    ELSE CHOOSE i \in 1..Len(body) : body[i] = "." /\ \A j \in 1..(i - 1) : body[j] # "."

IntPart(body) == SubSeq(body, 1, DotAt(body) - 1)

FracPart(body) == SubSeq(body, DotAt(body) + 1, Len(body))

IsNumeral(body) ==
    /\ Len(IntPart(body)) + Len(FracPart(body)) > 0
    /\ \A i \in 1..Len(body) : i = DotAt(body) \/ IsDigit(body[i])

Magnitude(body) ==
    DigitsVal(IntPart(body)) * Scale + DigitsVal(SubSeq(FracPart(body) \o <<"0", "0">>, 1, Decimals))

ParseUnsigned(body, sign) ==
    IF [i \in 1..Len(body) |-> Lower(body[i])] = <<"n", "a", "n">> THEN [raised |-> FALSE, f |-> NaN]
    ELSE IF IsNumeral(body) THEN [raised |-> FALSE, f |-> F(sign * Magnitude(body))]
    ELSE [raised |-> TRUE, f |-> F(0)]

ParseStripped(t) ==
    IF t # <<>> /\ t[1] = "-" THEN ParseUnsigned(Tail(t), -1)
    ELSE IF t # <<>> /\ t[1] = "+" THEN ParseUnsigned(Tail(t), 1)
    ELSE ParseUnsigned(t, 1)

ParseFloat(s) == ParseStripped(Strip(s))

(* float(x) for the kinds of value a cell, a form field or a column holds *)
PyFloat(x) ==
    CASE x.kind = "none" -> [raised |-> TRUE, f |-> F(0)]
      [] x.kind = "float" -> [raised |-> FALSE, f |-> x.f]
      [] x.kind = "decimal" -> [raised |-> FALSE, f |-> x.f]
      [] x.kind = "str" -> ParseFloat(x.s)

PyStr(x) ==
    CASE x.kind = "str" -> x.s
      [] x.kind = "decimal" -> DecimalStr(x.f)
      [] x.kind = "none" -> <<"N", "o", "n", "e">>
      [] x.kind = "float" -> IF x.f.nan THEN <<"n", "a", "n">> ELSE DecimalStr(x.f)

None == [kind |-> "none"]

Num(c) == [kind |-> "float", f |-> F(c)]

FloatNaN == [kind |-> "float", f |-> NaN]

Str(s) == [kind |-> "str", s |-> s]

Dec(f) == [kind |-> "decimal", f |-> f]

(* ------------------------------- UTIL --------------------------------- *)
to_float_NoneIsNaN(val) ==
    IF val.kind = "none" \/ (val.kind = "float" /\ val.f.nan) THEN NaN
    ELSE IF val.kind = "float" THEN val.f
    ELSE LET s == RemoveCommas(Strip(PyStr(val)))
             r == ParseFloat(s)
         IN IF s = <<>> THEN F(0) ELSE IF r.raised THEN F(0) ELSE r.f

to_float(val) ==
    IF val.kind = "none" \/ (val.kind = "float" /\ val.f.nan) THEN F(0)
    ELSE IF val.kind = "float" THEN val.f
    ELSE LET s == RemoveCommas(Strip(PyStr(val)))
             r == ParseFloat(s)
         IN IF s = <<>> THEN F(0) ELSE IF r.raised THEN F(0) ELSE r.f

Group_Plain(ds) == ds

RECURSIVE Group(_)
Group(ds) ==
    IF Len(ds) <= 3 THEN ds
    ELSE Group(SubSeq(ds, 1, Len(ds) - 3)) \o <<",">> \o SubSeq(ds, Len(ds) - 2, Len(ds))

(* format(v, ",.2f") *)
Fmt(f) ==
    IF f.nan THEN <<"n", "a", "n">>
    ELSE LET a == IF f.c < 0 THEN -f.c ELSE f.c
             fr == IntStr(a % Scale)
         IN (IF f.c < 0 THEN <<"-">> ELSE <<>>) \o Group(IntStr(a \div Scale)) \o <<".">>
            \o (IF Len(fr) < Decimals THEN <<"0">> ELSE <<>>) \o fr

PesoZero == <<"₱", "0", ".", "0", "0">>

peso(x) ==
    LET r == PyFloat(x)
    IN IF r.raised THEN PesoZero ELSE <<"₱">> \o Fmt(r.f)

(* ------------------------------- data --------------------------------- *)
E1 == <<"E", "1">>

E2 == <<"E", "2">>

EmpIds == {E1, E2}

Periods == {<<1, 1>>, <<1, 2>>}

Date(d) == [kind |-> "date", d |-> d]

Truthy(x) ==
    CASE x.kind = "none" -> FALSE
      [] x.kind = "str" -> x.s # <<>>
      [] x.kind = "float" -> x.f.nan \/ x.f.c # 0
      [] OTHER -> TRUE

EarningFields == <<"basic_pay", "overtime_pay", "allowances", "bonus">>

DeductionFields == <<"sss", "philhealth", "pagibig", "undertime", "late", "other_deductions", "tax">>

MoneyFields == EarningFields \o DeductionFields

MoneySet == {MoneyFields[i] : i \in 1..Len(MoneyFields)}

Key(r) == <<r.emp_id, r.period_start, r.period_end>>

(* ------------------------------- CRUD --------------------------------- *)
(* INSERT INTO employees ... ON CONFLICT (emp_id) DO UPDATE; the serial   *)
(* id of an employee is never read and is left out.                       *)
EmployeeUpsert(tbl, emp_id, full_name, position, department, rate_type, base_rate, now) ==
    LET hit == {e \in tbl : emp_id.kind = "str" /\ e.emp_id = emp_id.s}
    IN IF emp_id.kind = "none" \/ full_name.kind = "none" THEN [ok |-> FALSE, tbl |-> tbl]
       ELSE IF hit # {}
            THEN [ok |-> TRUE,
                  tbl |-> (tbl \ hit) \cup
                          {[e EXCEPT !.full_name = full_name.s, !.position = position,
                                     !.department = department, !.rate_type = rate_type,
                                     !.base_rate = base_rate] : e \in hit}]
            ELSE [ok |-> TRUE,
                  tbl |-> tbl \cup {[emp_id |-> emp_id.s, full_name |-> full_name.s,
                                     position |-> position, department |-> department,
                                     rate_type |-> rate_type, base_rate |-> base_rate,
                                     created_at |-> now]}]

EmployeeDelete_NoCascade(emps, tbl, emp_id) ==
    [emps |-> {e \in emps : e.emp_id # emp_id}, tbl |-> tbl]

(* DELETE FROM employees WHERE emp_id=%s, with payroll.emp_id ON DELETE CASCADE *)
EmployeeDelete(emps, tbl, emp_id) ==
    [emps |-> {e \in emps : e.emp_id # emp_id},
     tbl |-> IF \E e \in emps : e.emp_id = emp_id
             THEN {r \in tbl : r.emp_id # emp_id} ELSE tbl]

(* the parameter dictionary of insert_or_update_payroll *)
PayrollParams(row) ==
    [f \in MoneySet |-> to_float(row[f])]
    @@ [emp_id |-> row.emp_id, period_start |-> row.period_start, period_end |-> row.period_end,
        notes |-> IF Truthy(row.notes) THEN row.notes ELSE None]

PayrollUpsert_AlwaysInsert(tbl, emps, p, id, now) ==
    LET notNull == p.emp_id.kind = "str" /\ p.period_start.kind = "date" /\ p.period_end.kind = "date"
    IN IF ~notNull THEN [ok |-> FALSE, tbl |-> tbl]
       ELSE IF ~(\E e \in emps : e.emp_id = p.emp_id.s) THEN [ok |-> FALSE, tbl |-> tbl]
       ELSE [ok |-> TRUE,
             tbl |-> tbl \cup {[f \in MoneySet |-> p[f]]
                               @@ [id |-> id, emp_id |-> p.emp_id.s,
                                   period_start |-> p.period_start.d,
                                   period_end |-> p.period_end.d,
                                   notes |-> p.notes, created_at |-> now]}]

PayrollUpsert_KeepsBonus(tbl, emps, p, id, now) ==
    LET notNull == p.emp_id.kind = "str" /\ p.period_start.kind = "date" /\ p.period_end.kind = "date"
        hit == {r \in tbl : notNull /\ Key(r) = <<p.emp_id.s, p.period_start.d, p.period_end.d>>}
    IN IF ~notNull THEN [ok |-> FALSE, tbl |-> tbl]
       ELSE IF hit # {}
            THEN [ok |-> TRUE,
                  tbl |-> (tbl \ hit) \cup
                          {[c \in DOMAIN r |-> IF c \in (MoneySet \ {"bonus"}) \cup {"notes"} THEN p[c] ELSE r[c]] :
                              r \in hit}]
            ELSE IF ~(\E e \in emps : e.emp_id = p.emp_id.s) THEN [ok |-> FALSE, tbl |-> tbl]
            ELSE [ok |-> TRUE,
                  tbl |-> tbl \cup {[f \in MoneySet |-> p[f]]
                                    @@ [id |-> id, emp_id |-> p.emp_id.s,
                                        period_start |-> p.period_start.d,
                                        period_end |-> p.period_end.d,
                                        notes |-> p.notes, created_at |-> now]}]

PayrollUpsert_NoForeignKey(tbl, emps, p, id, now) ==
    LET notNull == p.emp_id.kind = "str" /\ p.period_start.kind = "date" /\ p.period_end.kind = "date"
        hit == {r \in tbl : notNull /\ Key(r) = <<p.emp_id.s, p.period_start.d, p.period_end.d>>}
    IN IF ~notNull THEN [ok |-> FALSE, tbl |-> tbl]
       ELSE IF hit # {}
            THEN [ok |-> TRUE,
                  tbl |-> (tbl \ hit) \cup
                          {[c \in DOMAIN r |-> IF c \in MoneySet \cup {"notes"} THEN p[c] ELSE r[c]] : r \in hit}]
            ELSE [ok |-> TRUE,
                  tbl |-> tbl \cup {[f \in MoneySet |-> p[f]]
                                    @@ [id |-> id, emp_id |-> p.emp_id.s,
                                        period_start |-> p.period_start.d,
                                        period_end |-> p.period_end.d,
                                        notes |-> p.notes, created_at |-> now]}]

PayrollUpsert_EarningsOnly(tbl, emps, p, id, now) ==
    LET notNull == p.emp_id.kind = "str" /\ p.period_start.kind = "date" /\ p.period_end.kind = "date"
        hit == {r \in tbl : notNull /\ Key(r) = <<p.emp_id.s, p.period_start.d, p.period_end.d>>}
    IN IF ~notNull THEN [ok |-> FALSE, tbl |-> tbl]
       ELSE IF hit # {}
            THEN [ok |-> TRUE,
                  tbl |-> (tbl \ hit) \cup
                          {[c \in DOMAIN r |-> IF c \in {"basic_pay", "overtime_pay", "allowances", "bonus"}
                                               THEN p[c] ELSE r[c]] : r \in hit}]
            ELSE IF ~(\E e \in emps : e.emp_id = p.emp_id.s) THEN [ok |-> FALSE, tbl |-> tbl]
            ELSE [ok |-> TRUE,
                  tbl |-> tbl \cup {[f \in MoneySet |-> p[f]]
                                    @@ [id |-> id, emp_id |-> p.emp_id.s,
                                        period_start |-> p.period_start.d,
                                        period_end |-> p.period_end.d,
                                        notes |-> p.notes, created_at |-> now]}]

(* INSERT INTO payroll ... ON CONFLICT (emp_id, period_start, period_end) *)
(* DO UPDATE SET <money fields>, notes.  id is the value drawn from the   *)
(* serial sequence, now the transaction's NOW().                          *)
PayrollUpsert(tbl, emps, p, id, now) ==
    LET notNull == p.emp_id.kind = "str" /\ p.period_start.kind = "date" /\ p.period_end.kind = "date"
        hit == {r \in tbl : notNull /\ Key(r) = <<p.emp_id.s, p.period_start.d, p.period_end.d>>}
    IN IF ~notNull THEN [ok |-> FALSE, tbl |-> tbl]
       ELSE IF hit # {}
            THEN [ok |-> TRUE,
                  tbl |-> (tbl \ hit) \cup
                          {[c \in DOMAIN r |-> IF c \in MoneySet \cup {"notes"} THEN p[c] ELSE r[c]] : r \in hit}]
            ELSE IF ~(\E e \in emps : e.emp_id = p.emp_id.s) THEN [ok |-> FALSE, tbl |-> tbl]
            ELSE [ok |-> TRUE,
                  tbl |-> tbl \cup {[f \in MoneySet |-> p[f]]
                                    @@ [id |-> id, emp_id |-> p.emp_id.s,
                                        period_start |-> p.period_start.d,
                                        period_end |-> p.period_end.d,
                                        notes |-> p.notes, created_at |-> now]}]

(* DELETE FROM payroll WHERE id=%s *)
PayrollDelete(tbl, id) == {r \in tbl : r.id # id}

RowNumber_ByEmployee(tbl, r) == 1 + Cardinality({q \in tbl : q.emp_id = r.emp_id /\ q.id > r.id})

RowNumber_Ascending(tbl, r) == 1 + Cardinality({q \in tbl : Key(q) = Key(r) /\ q.id < r.id})

(* ROW_NUMBER() OVER (PARTITION BY emp_id, period_start, period_end ORDER BY id DESC) *)
RowNumber(tbl, r) == 1 + Cardinality({q \in tbl : Key(q) = Key(r) /\ q.id > r.id})

MergeDups_SecondOnly(tbl) == {r \in tbl : 1 + Cardinality({q \in tbl : Key(q) = Key(r) /\ q.id > r.id}) = 2}

MergeDups_All(tbl) == {r \in tbl : 1 + Cardinality({q \in tbl : Key(q) = Key(r) /\ q.id > r.id}) >= 1}

(* the rows of DELETE ... USING ranked r WHERE p.id = r.id AND r.rn > 1 RETURNING p.id *)
MergeDups(tbl) == {r \in tbl : RowNumber(tbl, r) > 1}

MergeResult_CountsGroups(tbl) ==
    LET dups == {r \in tbl : 1 + Cardinality({q \in tbl : Key(q) = Key(r) /\ q.id > r.id}) > 1}
    IN [tbl |-> tbl \ dups, ret |-> Cardinality({Key(r) : r \in dups})]

(* merge_duplicate_payroll: the table after the DELETE and len(dups) *)
MergeResult(tbl) == [tbl |-> tbl \ MergeDups(tbl), ret |-> Cardinality(MergeDups(tbl))]

(* ------------------------------ totals -------------------------------- *)
(* dict.get: a key the dictionary lacks reads as None *)
Get(row, k) == IF k \in DOMAIN row THEN row[k] ELSE None

EarningLabels == <<"Basic Pay", "Overtime Pay", "Allowances", "Bonus">>

DeductionLabels == <<"SSS", "PhilHealth", "Pag-IBIG", "Undertime", "Late", "Other Deductions", "Withholding Tax">>

(* make_payslip_pdf: the earnings and deductions lists of (label, value) *)
SlipEarnings(row) == [i \in 1..Len(EarningFields) |-> <<EarningLabels[i], to_float(Get(row, EarningFields[i]))>>]

SlipDeductions(row) == [i \in 1..Len(DeductionFields) |-> <<DeductionLabels[i], to_float(Get(row, DeductionFields[i]))>>]

Values(pairs) == [i \in 1..Len(pairs) |-> pairs[i][2]]

SlipTotals_Clamped(row) ==
    LET gross == FSum([i \in 1..Len(EarningFields) |-> to_float(Get(row, EarningFields[i]))])
        total_deductions == FSum([i \in 1..Len(DeductionFields) |-> to_float(Get(row, DeductionFields[i]))])
        net == FSub(gross, total_deductions)
    IN [gross |-> gross, deductions |-> total_deductions,
        net |-> IF ~net.nan /\ net.c < 0 THEN F(0) ELSE net]

SlipTotals(row) ==
    LET gross == FSum(Values(SlipEarnings(row)))
        total_deductions == FSum(Values(SlipDeductions(row)))
    IN [gross |-> gross, deductions |-> total_deductions, net |-> FSub(gross, total_deductions)]

(* main, Employee Self-Service: the three dashboard metrics *)
DashboardTotals(row) ==
    LET gross == FSum([i \in 1..Len(EarningFields) |-> to_float(Get(row, EarningFields[i]))])
        deductions == FSum([i \in 1..Len(DeductionFields) |-> to_float(Get(row, DeductionFields[i]))])
    IN [gross |-> gross, deductions |-> deductions, net |-> FSub(gross, deductions)]

(* ------------------------------ payslip ------------------------------- *)
(* Lengths are whole numbers of 1/127 point: a point is 127 units and a    *)
(* millimetre (72/25.4 points) 360, so A4 and every coordinate are exact.  *)
Pt == 127

Mm == 360

Width == 210 * Mm

Height == 297 * Mm

Margin == 18 * Mm

X0 == Margin

COMPANY_NAME == "REKS Amusement Com Inc"

COMPANY_DEPT == "Marketing Department"

COMPANY_ADDRESS == ""

COMPANY_TIN == ""

(* a text to draw: a literal, or an f-string with the texts filled in *)
Lit(s) == [fmt |-> s, args |-> <<>>]

Format(f, args) == [fmt |-> f, args |-> args]

(* str(date): the ISO form; the model's days are days of January 2024 *)
DateIso(d) == <<"2", "0", "2", "4", "-", "0", "1", "-">> \o (IF d < 10 THEN <<"0">> ELSE <<>>) \o IntStr(d)

PyStrOf(x) == IF x.kind = "date" THEN DateIso(x.d) ELSE PyStr(x)

(* str(v or "") *)
StrOrEmpty(x) == IF Truthy(x) THEN PyStrOf(x) ELSE <<>>

GetOr(row, k, default) == IF k \in DOMAIN row THEN row[k] ELSE default

(* The body of make_payslip_pdf as the list of its statements: a canvas   *)
(* call, or an assignment to one of the cursors y, y_left, y_right.       *)
SetFont(name, size) == [do |-> "setFont", name |-> name, size |-> size]

DrawString(x, cur, text) == [do |-> "drawString", x |-> x, cur |-> cur, text |-> text]

DrawRightString(x, cur, text) == [do |-> "drawRightString", x |-> x, cur |-> cur, text |-> text]

Line(cur) == [do |-> "line", cur |-> cur]

Down(cur, d) == [do |-> "down", cur |-> cur, d |-> d]

Assign(cur, from) == [do |-> "assign", cur |-> cur, from |-> from]

DrawStringAt(x, y, text) == [do |-> "drawString", x |-> x, cur |-> "fixed", y |-> y, text |-> text]

LowerOfColumns(d) == [do |-> "min", d |-> d]

SetFillColor(color) == [do |-> "setFillColor", color |-> color]

(* what the canvas has been asked to do so far, the cursors, and whether *)
(* a call has raised                                                      *)
Canvas0 == [ops |-> <<>>, y |-> Height - Margin, y_left |-> 0, y_right |-> 0, raised |-> FALSE]

(* drawString draws a str; a value that is none (None from a NULL column) *)
(* is taken to make the call raise, the worse of what the canvas may do   *)
NotAStr(v) == [notstr |-> v]

IsText(text) == "notstr" \notin DOMAIN text

Min(a, b) == IF a <= b THEN a ELSE b

Exec(st, ins) ==
    CASE st.raised -> st
      [] ins.do = "setFont" ->
            [st EXCEPT !.ops = Append(@, [op |-> "setFont", name |-> ins.name, size |-> ins.size])]
      [] ins.do \in {"drawString", "drawRightString"} /\ ~IsText(ins.text) -> [st EXCEPT !.raised = TRUE]
      [] ins.do \in {"drawString", "drawRightString"} ->
            [st EXCEPT !.ops = Append(@, [op |-> ins.do, x |-> ins.x,
                                          y |-> IF ins.cur = "fixed" THEN ins.y ELSE st[ins.cur],
                                          text |-> ins.text])]
      [] ins.do = "line" ->
            [st EXCEPT !.ops = Append(@, [op |-> "line", x1 |-> X0, y1 |-> st[ins.cur],
                                          x2 |-> Width - Margin, y2 |-> st[ins.cur]])]
      [] ins.do = "down" -> [st EXCEPT ![ins.cur] = @ - ins.d]
      [] ins.do = "assign" -> [st EXCEPT ![ins.cur] = st[ins.from]]
      [] ins.do = "min" -> [st EXCEPT !.y = Min(st.y_left, st.y_right) - ins.d]
      [] ins.do = "setFillColor" -> [st EXCEPT !.ops = Append(@, [op |-> "setFillColor", color |-> ins.color])]
      [] ins.do \in {"showPage", "save"} -> [st EXCEPT !.ops = Append(@, [op |-> ins.do])]

(* the statements lo..hi of prog, in order, from the canvas st; the test  *)
(* on the first half's cursor decides nothing (a cursor never exceeds the *)
(* page height), it has the first half computed before the second starts  *)
RECURSIVE RunRange(_, _, _, _)
RunRange(st, prog, lo, hi) ==
    IF lo > hi THEN st
    ELSE IF lo = hi THEN Exec(st, prog[lo])
    ELSE LET half == RunRange(st, prog, lo, (lo + hi) \div 2)
         IN IF half.y <= Height THEN RunRange(half, prog, (lo + hi) \div 2 + 1, hi) ELSE half

Run(prog) == RunRange(Canvas0, prog, 1, Len(prog))

draw_header_AddressAlways ==
    <<SetFont("Helvetica-Bold", 14), DrawString(X0, "y", Lit(COMPANY_NAME)), Down("y", 14 * Pt),
      SetFont("Helvetica", 10)>>
    \o (IF COMPANY_DEPT # "" THEN <<DrawString(X0, "y", Lit(COMPANY_DEPT)), Down("y", 12 * Pt)>> ELSE <<>>)
    \o <<DrawString(X0, "y", Lit(COMPANY_ADDRESS)), Down("y", 12 * Pt)>>
    \o (IF COMPANY_TIN # ""
        THEN <<DrawString(X0, "y", Format("TIN: {}", <<COMPANY_TIN>>)), Down("y", 14 * Pt)>> ELSE <<>>)
    \o <<Line("y"), Down("y", 16 * Pt)>>

draw_header ==
    <<SetFont("Helvetica-Bold", 14), DrawString(X0, "y", Lit(COMPANY_NAME)), Down("y", 14 * Pt),
      SetFont("Helvetica", 10)>>
    \o (IF COMPANY_DEPT # "" THEN <<DrawString(X0, "y", Lit(COMPANY_DEPT)), Down("y", 12 * Pt)>> ELSE <<>>)
    \o (IF COMPANY_ADDRESS # "" THEN <<DrawString(X0, "y", Lit(COMPANY_ADDRESS)), Down("y", 12 * Pt)>> ELSE <<>>)
    \o (IF COMPANY_TIN # ""
        THEN <<DrawString(X0, "y", Format("TIN: {}", <<COMPANY_TIN>>)), Down("y", 14 * Pt)>> ELSE <<>>)
    \o <<Line("y"), Down("y", 16 * Pt)>>

label_value(label, value) ==
    <<SetFont("Helvetica-Bold", 10), DrawString(X0, "y", Lit(label)),
      SetFont("Helvetica", 10), DrawString(X0 + 120 * Pt, "y", value), Down("y", 12 * Pt)>>

(* a value handed to drawString as it is *)
Shown(v) == IF v.kind = "str" THEN Format("{}", <<v.s>>) ELSE NotAStr(v)

employee_block_AlwaysPosition(payroll_row, employee_row) ==
    label_value("Employee Name:", Shown(GetOr(employee_row, "full_name", Str(<<>>))))
    \o label_value("Employee ID:", Shown(GetOr(employee_row, "emp_id", Str(<<>>))))
    \o label_value("Position:", Shown(GetOr(employee_row, "position", Str(<<>>))))
    \o (IF Truthy(GetOr(employee_row, "department", Str(<<>>)))
        THEN label_value("Department:", Shown(GetOr(employee_row, "department", Str(<<>>)))) ELSE <<>>)
    \o label_value("Pay Period:", Format("{} to {}", <<StrOrEmpty(Get(payroll_row, "period_start")),
                                                        StrOrEmpty(Get(payroll_row, "period_end"))>>))
    \o <<Down("y", 6 * Pt), Line("y"), Down("y", 16 * Pt)>>

(* "Employee + Period" *)
employee_block(payroll_row, employee_row) ==
    label_value("Employee Name:", Shown(GetOr(employee_row, "full_name", Str(<<>>))))
    \o label_value("Employee ID:", Shown(GetOr(employee_row, "emp_id", Str(<<>>))))
    \o (IF Truthy(GetOr(employee_row, "position", Str(<<>>)))
        THEN label_value("Position:", Shown(GetOr(employee_row, "position", Str(<<>>)))) ELSE <<>>)
    \o (IF Truthy(GetOr(employee_row, "department", Str(<<>>)))
        THEN label_value("Department:", Shown(GetOr(employee_row, "department", Str(<<>>)))) ELSE <<>>)
    \o label_value("Pay Period:", Format("{} to {}", <<StrOrEmpty(Get(payroll_row, "period_start")),
                                                        StrOrEmpty(Get(payroll_row, "period_end"))>>))
    \o <<Down("y", 6 * Pt), Line("y"), Down("y", 16 * Pt)>>

Money(v) == Format("{}", <<peso([kind |-> "float", f |-> v])>>)

(* one of the two for loops over (label, val) *)
RECURSIVE Column(_, _, _, _)
Column(pairs, x_label, x_value, cur) ==
    IF pairs = <<>> THEN <<>>
    ELSE <<DrawString(x_label, cur, Lit(pairs[1][1])), DrawRightString(x_value, cur, Money(pairs[1][2])),
           Down(cur, 12 * Pt)>>
         \o Column(Tail(pairs), x_label, x_value, cur)

table_RuleUnderLeft(payroll_row) ==
    <<SetFont("Helvetica-Bold", 11), DrawString(X0, "y", Lit("EARNINGS")),
      DrawString(Width \div 2, "y", Lit("DEDUCTIONS")), Down("y", 12 * Pt),
      SetFont("Helvetica", 10), Assign("y_left", "y")>>
    \o Column(SlipEarnings(payroll_row), X0, Width \div 2 - 10 * Pt, "y_left")
    \o <<Assign("y_right", "y")>>
    \o Column(SlipDeductions(payroll_row), Width \div 2 + 10 * Pt, Width - Margin, "y_right")
    \o <<Assign("y", "y_left"), Down("y", 10 * Pt), Line("y"), Down("y", 14 * Pt)>>

table(payroll_row) ==
    <<SetFont("Helvetica-Bold", 11), DrawString(X0, "y", Lit("EARNINGS")),
      DrawString(Width \div 2, "y", Lit("DEDUCTIONS")), Down("y", 12 * Pt),
      SetFont("Helvetica", 10), Assign("y_left", "y")>>
    \o Column(SlipEarnings(payroll_row), X0, Width \div 2 - 10 * Pt, "y_left")
    \o <<Assign("y_right", "y")>>
    \o Column(SlipDeductions(payroll_row), Width \div 2 + 10 * Pt, Width - Margin, "y_right")
    \o <<LowerOfColumns(10 * Pt), Line("y"), Down("y", 14 * Pt)>>

totals(payroll_row) ==
    <<SetFont("Helvetica-Bold", 11), DrawString(X0, "y", Lit("Gross Pay:")),
      DrawRightString(Width \div 2 - 10 * Pt, "y", Money(SlipTotals(payroll_row).gross)),
      DrawString(Width \div 2 + 10 * Pt, "y", Lit("Total Deductions:")),
      DrawRightString(Width - Margin, "y", Money(SlipTotals(payroll_row).deductions)),
      Down("y", 18 * Pt),
      SetFont("Helvetica-Bold", 12), DrawString(X0, "y", Lit("NET PAY:")),
      DrawRightString(Width - Margin, "y", Money(SlipTotals(payroll_row).net)),
      Down("y", 20 * Pt)>>

notes_block_NoStrip(payroll_row) ==
    IF StrOrEmpty(Get(payroll_row, "notes")) # <<>>
    THEN <<SetFont("Helvetica", 9),
           DrawString(X0, "y", Format("Notes: {}", <<StrOrEmpty(Get(payroll_row, "notes"))>>)),
           Down("y", 12 * Pt)>>
    ELSE <<>>

notes_block(payroll_row) ==
    IF Strip(StrOrEmpty(Get(payroll_row, "notes"))) # <<>>
    THEN <<SetFont("Helvetica", 9),
           DrawString(X0, "y", Format("Notes: {}", <<Strip(StrOrEmpty(Get(payroll_row, "notes")))>>)),
           Down("y", 12 * Pt)>>
    ELSE <<>>

FOOTER == "Generated on {} via REKS Payslip App"

footer_RisesWithTime(now) ==
    <<SetFont("Helvetica", 8), SetFillColor("grey"),
      DrawStringAt(X0, 12 * Mm + now, Format(FOOTER, <<IntStr(now)>>)),
      [do |-> "showPage"], [do |-> "save"]>>

footer_AtCursor(now) ==
    <<SetFont("Helvetica", 8), SetFillColor("grey"),
      DrawString(X0, "y", Format(FOOTER, <<IntStr(now)>>)),
      [do |-> "showPage"], [do |-> "save"]>>

footer(now) ==
    <<SetFont("Helvetica", 8), SetFillColor("grey"),
      DrawStringAt(X0, 12 * Mm, Format(FOOTER, <<IntStr(now)>>)),
      [do |-> "showPage"], [do |-> "save"]>>

(* the canvas calls of one payslip, in order, and where the cursors end *)
make_payslip_pdf(payroll_row, employee_row, now) ==
    Run(draw_header \o employee_block(payroll_row, employee_row) \o table(payroll_row)
        \o totals(payroll_row) \o notes_block(payroll_row) \o footer(now))

(* ------------------------------ import -------------------------------- *)
RequiredPayrollColumns == {"emp_id", "period_start", "period_end"}

MissingColumns_IdOnly(required, df) == (required \ df.columns) \cap {"emp_id"}

(* required - set(df.columns) *)
MissingColumns(required, df) == required \ df.columns

(* ", ".join(sorted(...)) of column names, kept as the list of names *)
Sorted(names) ==
    SelectSeq(<<"emp_id", "full_name", "period_end", "period_start">>, LAMBDA c : c \in names)

(* the ValueError raised for a sheet of the given kind *)
ColumnsError(sheet, missing) ==
    [type |-> "ValueError", fmt |-> sheet \o " sheet missing required columns: {}", args |-> <<Sorted(missing)>>]

PayrollColumns == RequiredPayrollColumns \cup MoneySet \cup {"notes"}

(* one row dictionary built by import_payroll_from_df from a sheet row *)
ImportRow(columns, r) ==
    LET cell(c) == IF c \in columns THEN r[c] ELSE None
        day(c) == IF cell(c).kind = "date" THEN cell(c) ELSE None
    IN [f \in MoneySet |-> [kind |-> "float", f |-> to_float(cell(f))]]
       @@ [emp_id |-> Str(Strip(PyStr(cell("emp_id")))),
           period_start |-> day("period_start"), period_end |-> day("period_end"),
           notes |-> Str(IF Truthy(cell("notes")) THEN PyStr(cell("notes")) ELSE <<>>)]

ImportSkips(row) ==
    row.emp_id.s = <<>> \/ row.period_start.kind = "none" \/ row.period_end.kind = "none"

(* pd.to_datetime raises on a cell that holds text which is no date (the *)
(* model's date cells stand for the texts and timestamps that parse)      *)
ImportRaises(columns, r) ==
    \E c \in {"period_start", "period_end"} \cap columns : r[c].kind = "str"

ImportStep_ErrorsStick(columns, r, emps, st) ==
    LET row == ImportRow(columns, r)
        res == PayrollUpsert(st.tbl, emps, PayrollParams(row), st.id, st.now)
        aborted == \E i \in 1..Len(st.msgs) : st.msgs[i] = "Row error"
    IN IF ImportRaises(columns, r)
       THEN [st EXCEPT !.msgs = Append(@, "Row error")]
       ELSE IF ImportSkips(row)
       THEN [st EXCEPT !.msgs = Append(@, "Skipped a row")]
       ELSE IF res.ok /\ ~aborted
            THEN [st EXCEPT !.tbl = res.tbl, !.id = @ + 1, !.now = @ + 1, !.count = @ + 1]
            ELSE [st EXCEPT !.id = @ + 1, !.now = @ + 1, !.msgs = Append(@, "Row error")]

(* one pass of the loop body of import_payroll_from_df; st carries the    *)
(* table, the sequence, the time, the count and the messages.  The upsert *)
(* is one run_sql: committed when it succeeds, rolled back when it raises *)
ImportStep(columns, r, emps, st) ==
    LET row == ImportRow(columns, r)
        res == PayrollUpsert(st.tbl, emps, PayrollParams(row), st.id, st.now)
    IN IF ImportRaises(columns, r)
       THEN [st EXCEPT !.msgs = Append(@, "Row error")]
       ELSE IF ImportSkips(row)
       THEN [st EXCEPT !.msgs = Append(@, "Skipped a row")]
       ELSE IF res.ok
            THEN [st EXCEPT !.tbl = res.tbl, !.id = @ + 1, !.now = @ + 1, !.count = @ + 1]
            ELSE [st EXCEPT !.id = @ + 1, !.now = @ + 1, !.msgs = Append(@, "Row error")]

(* the for loop: after[i] is the state once the first i rows are handled *)
ImportLoop(columns, rows, emps, st) ==
    LET after[i \in 0..Len(rows)] ==
            IF i = 0 THEN st ELSE ImportStep(columns, rows[i], emps, after[i - 1])
    IN after[Len(rows)]

RequiredEmployeeColumns == {"emp_id", "full_name"}

EmployeeColumns == RequiredEmployeeColumns \cup {"position", "department", "rate_type", "base_rate"}

(* the arguments import_employees_from_df builds from one sheet row *)
EmpImportRow(columns, r) ==
    LET cell(c) == IF c \in columns THEN r[c] ELSE None
        text(c) == Str(IF Truthy(cell(c)) THEN PyStr(cell(c)) ELSE <<>>)
    IN [emp_id |-> Str(Strip(PyStr(cell("emp_id")))),
        full_name |-> Str(Strip(PyStr(cell("full_name")))),
        position |-> text("position"), department |-> text("department"),
        rate_type |-> text("rate_type"), base_rate |-> to_float(cell("base_rate"))]

(* one pass of the loop body of import_employees_from_df *)
EmpImportStep(columns, r, st) ==
    LET a == EmpImportRow(columns, r)
    IN IF a.emp_id.s = <<>> \/ a.full_name.s = <<>>
       THEN [st EXCEPT !.msgs = Append(@, "Skipped a row")]
       ELSE [st EXCEPT !.tbl = EmployeeUpsert(@, a.emp_id, a.full_name, a.position, a.department,
                                              a.rate_type, a.base_rate, st.now).tbl,
                       !.now = @ + 1, !.count = @ + 1]

EmpImportLoop(columns, rows, st) ==
    LET after[i \in 0..Len(rows)] ==
            IF i = 0 THEN st ELSE EmpImportStep(columns, rows[i], after[i - 1])
    IN after[Len(rows)]

(* ------------------------------ inputs -------------------------------- *)
Idx(f) == CHOOSE i \in 1..Len(MoneyFields) : MoneyFields[i] = f

RowA == [f \in MoneySet |-> Num(IF f = "basic_pay" THEN 7500000 ELSE 100 * Idx(f))]
        @@ [notes |-> Str(<<"o", "k">>)]

RowB == [f \in MoneySet |-> Num(250 * Idx(f))] @@ [notes |-> None]

RowC == [f \in MoneySet |->
            CASE f = "basic_pay" -> Str(<<"1", ",", "5">>)
              [] f = "overtime_pay" -> Str(<<" ">>)
              [] f = "allowances" -> None
              [] f = "bonus" -> Str(<<"a">>)
              [] f = "sss" -> Str(<<"n", "a", "n">>)
              [] OTHER -> Num(0)]
        @@ [notes |-> Str(<<>>)]

RowSamples == {RowA, RowB, RowC}

PayrollInputs ==
    {r @@ [emp_id |-> Str(e), period_start |-> Date(p[1]), period_end |-> Date(p[2])] :
        r \in RowSamples, e \in EmpIds, p \in Periods}

ProfileA == [full_name |-> Str(<<"A", "n", "n">>), position |-> Str(<<>>), department |-> Str(<<>>),
             rate_type |-> Str(<<>>), base_rate |-> Num(0)]

ProfileB == [full_name |-> Str(<<"B", "o">>), position |-> Str(<<"D", "e", "v">>),
             department |-> Str(<<"M", "k", "t">>), rate_type |-> Str(<<"d", "a", "i", "l", "y">>),
             base_rate |-> Str(<<"1", ",", "5">>)]

Profiles == {ProfileA, ProfileB}

SheetGood == RowC @@ [emp_id |-> Str(<<" ", "E", "1">>), period_start |-> Date(1), period_end |-> Date(1)]

SheetNoEmp == RowB @@ [emp_id |-> FloatNaN, period_start |-> Date(1), period_end |-> Date(2)]

SheetNoEnd == RowA @@ [emp_id |-> Str(E2), period_start |-> Date(1), period_end |-> FloatNaN,
                       notes |-> FloatNaN]

SheetBadDate == RowB @@ [emp_id |-> Str(E1), period_start |-> Str(<<"a">>), period_end |-> Date(2)]

SheetRows == {SheetGood, SheetNoEmp, SheetNoEnd, SheetBadDate}

RECURSIVE SeqsUpTo(_, _)
SeqsUpTo(S, n) == IF n = 0 THEN {<<>>} ELSE SeqsUpTo(S, n - 1) \cup {Append(q, x) : q \in SeqsUpTo(S, n - 1), x \in S}

ColumnSets == {PayrollColumns, PayrollColumns \ {"period_end", "notes"}}

(* every mix of rows under the full header; under a header that lacks a   *)
(* required column the rows are never read, and one kind of row will do   *)
Sheets ==
    {[columns |-> PayrollColumns, rows |-> rs] : rs \in SeqsUpTo(SheetRows, MaxDfRows)}
    \cup {[columns |-> cs, rows |-> rs] :
            cs \in ColumnSets \ {PayrollColumns}, rs \in SeqsUpTo({SheetGood}, MaxDfRows)}

EmpSheetGood == [emp_id |-> Str(<<" ", "E", "2">>), full_name |-> Str(<<"B", "o", " ">>),
                 position |-> FloatNaN, department |-> None, rate_type |-> Str(<<>>),
                 base_rate |-> Str(<<"1", ",", "5">>)]

EmpSheetNoName == [emp_id |-> Str(E1), full_name |-> Str(<<" ">>), position |-> None,
                   department |-> None, rate_type |-> None, base_rate |-> None]

(* an empty cell of a sheet is read as NaN *)
EmpSheetNoId == [emp_id |-> FloatNaN, full_name |-> Str(<<"A", "n", "n">>), position |-> FloatNaN,
                 department |-> FloatNaN, rate_type |-> FloatNaN, base_rate |-> FloatNaN]

EmpSheets ==
    {[columns |-> EmployeeColumns, rows |-> rs] :
        rs \in SeqsUpTo({EmpSheetGood, EmpSheetNoName, EmpSheetNoId}, MaxDfRows)}
    \cup {[columns |-> cs, rows |-> rs] :
            cs \in {EmployeeColumns \ {"full_name"}, RequiredEmployeeColumns},
            rs \in SeqsUpTo({EmpSheetGood}, MaxDfRows)}

(* ------------------------------ actions ------------------------------- *)
MERGE == "merge_duplicate_payroll"

UPSERT == "insert_or_update_payroll"

(* no transaction open, nobody inside run_sql *)
Idle == [open |-> FALSE, tbl |-> {}, failed |-> FALSE]

(* the sidebar as main first renders it: radio at index 0, password empty *)
Sidebar(secret, mode, pwd) == [secret |-> secret, mode |-> mode, pwd |-> pwd]

Quiet ==
    /\ ui = Sidebar(None, "Employee Self-Service", <<>>)
    /\ conn = Idle
    /\ sess = <<>>

Init ==
    /\ Quiet
    /\ employees = {}
    /\ payroll = {}
    /\ nextId = 1
    /\ clock = 0
    /\ last = [op |-> "init_db"]

upsert_employee(emp_id, prof) ==
    /\ clock < MaxClock
    /\ employees' = EmployeeUpsert(employees, Str(emp_id), prof.full_name, prof.position, prof.department,
                                   prof.rate_type, to_float(prof.base_rate), clock).tbl
    /\ clock' = clock + 1
    /\ last' = [op |-> "upsert_employee", emp_id |-> emp_id]
    /\ UNCHANGED <<payroll, nextId>>
    /\ UNCHANGED aux

delete_employee(emp_id) ==
    /\ clock < MaxClock
    /\ employees' = EmployeeDelete(employees, payroll, emp_id).emps
    /\ payroll' = EmployeeDelete(employees, payroll, emp_id).tbl
    /\ clock' = clock + 1
    /\ last' = [op |-> "delete_employee", emp_id |-> emp_id, pre |-> payroll, preEmp |-> employees]
    /\ UNCHANGED nextId
    /\ UNCHANGED aux

insert_or_update_payroll(row) ==
    /\ clock < MaxClock
    /\ LET res == PayrollUpsert(payroll, employees, PayrollParams(row), nextId, clock)
       IN /\ payroll' = res.tbl
          /\ last' = [op |-> UPSERT, row |-> row, ok |-> res.ok, pre |-> payroll, now |-> clock,
                      preEmp |-> employees]
    /\ nextId' = nextId + 1
    /\ clock' = clock + 1
    /\ UNCHANGED employees
    /\ UNCHANGED aux

delete_payroll(id) ==
    /\ clock < MaxClock
    /\ payroll' = PayrollDelete(payroll, id)
    /\ clock' = clock + 1
    /\ last' = [op |-> "delete_payroll", id |-> id, pre |-> payroll]
    /\ UNCHANGED <<employees, nextId>>
    /\ UNCHANGED aux

merge_duplicate_payroll ==
    /\ clock < MaxClock
    /\ payroll' = MergeResult(payroll).tbl
    /\ clock' = clock + 1
    /\ last' = [op |-> MERGE, ret |-> MergeResult(payroll).ret, pre |-> payroll, preEmp |-> employees,
                prior |-> IF last.op = MERGE THEN <<last.ret>> ELSE <<>>]
    /\ UNCHANGED <<employees, nextId>>
    /\ UNCHANGED aux

import_payroll_from_df(df) ==
    /\ clock + Len(df.rows) <= MaxClock
    /\ IF MissingColumns(RequiredPayrollColumns, df) # {}
       THEN /\ last' = [op |-> "import_payroll_from_df", df |-> df, raised |-> TRUE, pre |-> payroll,
                        preEmp |-> employees,
                        error |-> ColumnsError("Payroll", MissingColumns(RequiredPayrollColumns, df))]
            /\ UNCHANGED <<payroll, nextId, clock>>
       ELSE LET st == ImportLoop(df.columns, df.rows, employees,
                                 [tbl |-> payroll, id |-> nextId, now |-> clock, count |-> 0, msgs |-> <<>>])
            IN /\ payroll' = st.tbl
               /\ nextId' = st.id
               /\ clock' = st.now
               /\ last' = [op |-> "import_payroll_from_df", df |-> df, raised |-> FALSE,
                           ret |-> <<st.count, st.msgs>>, pre |-> payroll, preEmp |-> employees]
    /\ UNCHANGED employees
    /\ UNCHANGED aux

import_employees_from_df(df) ==
    /\ clock + Len(df.rows) <= MaxClock
    /\ IF MissingColumns(RequiredEmployeeColumns, df) # {}
       THEN /\ last' = [op |-> "import_employees_from_df", df |-> df, raised |-> TRUE, preEmp |-> employees,
                        pre |-> payroll,
                        error |-> ColumnsError("Employees", MissingColumns(RequiredEmployeeColumns, df))]
            /\ UNCHANGED <<employees, clock>>
       ELSE LET st == EmpImportLoop(df.columns, df.rows,
                                    [tbl |-> employees, now |-> clock, count |-> 0, msgs |-> <<>>])
            IN /\ employees' = st.tbl
               /\ clock' = st.now
               /\ last' = [op |-> "import_employees_from_df", df |-> df, raised |-> FALSE,
                           ret |-> <<st.count, st.msgs>>, preEmp |-> employees, pre |-> payroll]
    /\ UNCHANGED <<payroll, nextId>>
    /\ UNCHANGED aux

Next ==
    \/ \E e \in EmpIds, prof \in Profiles : upsert_employee(e, prof)
    \/ \E e \in EmpIds : delete_employee(e)
    \/ \E row \in PayrollInputs : insert_or_update_payroll(row)
    \/ \E id \in 1..MaxClock : delete_payroll(id)
    \/ merge_duplicate_payroll
    \/ \E df \in Sheets : import_payroll_from_df(df)
    \/ \E df \in EmpSheets : import_employees_from_df(df)

Spec == Init /\ [][Next]_vars

(* ------------------- a payroll table that predates ------------------- *)
(* ------------------- the UNIQUE constraint ---------------------------- *)
(* CREATE TABLE IF NOT EXISTS leaves an existing payroll table as it is,  *)
(* so the rows merge_duplicate_payroll is written for can be present.     *)
Stored(sample) == [f \in MoneySet |-> to_float(sample[f])] @@ [notes |-> sample.notes]

(* "Save Employee" passes the text of the Employee ID box on as typed,  *)
(* so an id with a trailing blank is an id of its own                     *)
E1Padded == <<"E", "1", " ">>

StoredIds == EmpIds \cup {E1Padded}

LegacyChoices == {<<>>} \cup {<<e, p, r>> : e \in StoredIds, p \in Periods, r \in {RowA, RowB}}

LegacyTable(ch) ==
    {Stored(ch[i][3]) @@ [id |-> i, emp_id |-> ch[i][1], period_start |-> ch[i][2][1],
                          period_end |-> ch[i][2][2], created_at |-> 0] :
        i \in {j \in DOMAIN ch : ch[j] # <<>>}}

LegacyEmployees ==
    {[emp_id |-> e, full_name |-> ProfileA.full_name.s, position |-> ProfileA.position,
      department |-> ProfileA.department, rate_type |-> ProfileA.rate_type,
      base_rate |-> to_float(ProfileA.base_rate), created_at |-> 0] : e \in StoredIds}

InitLegacy ==
    /\ Quiet
    /\ employees = LegacyEmployees
    /\ \E ch \in [1..MaxLegacyRows -> LegacyChoices] : payroll = LegacyTable(ch)
    /\ nextId = MaxLegacyRows + 1
    /\ clock = 1
    /\ last = [op |-> "init_db"]

NextLegacy ==
    \/ merge_duplicate_payroll
    \/ \E id \in 1..MaxLegacyRows : delete_payroll(id)
    \/ \E e \in StoredIds : delete_employee(e)

SpecLegacy == InitLegacy /\ [][NextLegacy]_vars

(* --------------- run_sql: one statement, one transaction -------------- *)
(* `with conn:` commits when the block ends and rolls back when it raises; *)
(* what a statement has done so far lives in the open transaction (conn)  *)
(* and reaches the table only at the commit.                              *)
TxDelete_Autocommit(committed, working, r) ==
    [committed |-> committed \ {r}, working |-> working \ {r}]

TxDelete(committed, working, r) == [committed |-> committed, working |-> working \ {r}]

MERGE_ABORTED == "merge_duplicate_payroll raised"

(* cur.execute starts: the ranking is taken on the table as it is now *)
merge_begin ==
    /\ clock < MaxClock
    /\ ~conn.open
    /\ sess = <<>>
    /\ conn' = [open |-> TRUE, tbl |-> payroll, failed |-> FALSE]
    /\ sess' = <<[pc |-> "DELETE", todo |-> MergeDups(payroll), pre |-> payroll]>>
    /\ last' = [op |-> "run_sql", pre |-> payroll]
    /\ UNCHANGED <<employees, payroll, nextId, clock, ui>>

(* the DELETE removes one more ranked row inside the transaction *)
merge_delete_row ==
    /\ conn.open
    /\ sess # <<>>
    /\ \E r \in sess[1].todo :
          LET d == TxDelete(payroll, conn.tbl, r)
          IN /\ payroll' = d.committed
             /\ conn' = [conn EXCEPT !.tbl = d.working]
             /\ sess' = <<[sess[1] EXCEPT !.todo = @ \ {r}]>>
    /\ UNCHANGED <<employees, nextId, clock, last, ui>>

(* the statement is through, the with block ends: commit, len(dups) *)
merge_commit ==
    /\ conn.open
    /\ sess # <<>>
    /\ sess[1].todo = {}
    /\ payroll' = conn.tbl
    /\ conn' = Idle
    /\ sess' = <<>>
    /\ clock' = clock + 1
    /\ last' = [op |-> MERGE, ret |-> Cardinality(sess[1].pre \ conn.tbl), pre |-> sess[1].pre,
                preEmp |-> employees, prior |-> <<>>]
    /\ UNCHANGED <<employees, nextId, ui>>

(* an error or a crash before the commit: the transaction is rolled back *)
merge_abort ==
    /\ conn.open
    /\ sess # <<>>
    /\ conn' = Idle
    /\ sess' = <<>>
    /\ clock' = clock + 1
    /\ last' = [op |-> MERGE_ABORTED, pre |-> sess[1].pre, done |-> sess[1].pre \ conn.tbl]
    /\ UNCHANGED <<employees, payroll, nextId, ui>>

NextTxn == merge_begin \/ merge_delete_row \/ merge_commit \/ merge_abort

SpecTxn == InitLegacy /\ [][NextTxn]_vars

(* ------------- two sessions on the one cached connection -------------- *)
(* get_conn is a cache_resource: every session's run_sql uses the same     *)
(* connection, hence the same transaction.  A statement sees what that     *)
(* transaction has written; after a statement raised, the transaction is   *)
(* failed until someone ends it, and a commit of it is a rollback.         *)
Callers == {1, 2}

InitConc ==
    /\ ui = Sidebar(None, "Admin", <<"p", "w">>)
    /\ conn = Idle
    /\ employees = {e \in LegacyEmployees : e.emp_id = E1}
    /\ \E stocked \in BOOLEAN :
          payroll = IF stocked THEN LegacyTable(<< <<E1, <<1, 1>>, RowB>> >>) ELSE {}
    /\ nextId = 2
    /\ clock = 0
    /\ \E a \in PayrollInputs, b \in PayrollInputs :
          sess = <<[pc |-> "execute", row |-> a, joined |-> FALSE],
                   [pc |-> "execute", row |-> b, joined |-> FALSE]>>
    /\ last = [op |-> "init_db"]

(* cur.execute of insert_or_update_payroll *)
upsert_execute(i) ==
    /\ clock < MaxClock
    /\ sess[i].pc = "execute"
    /\ IF conn.open /\ conn.failed
       THEN /\ sess' = [sess EXCEPT ![i].pc = "rollback", ![i].joined = TRUE]
            /\ UNCHANGED <<conn, nextId>>
       ELSE LET base == IF conn.open THEN conn.tbl ELSE payroll
                res == PayrollUpsert(base, employees, PayrollParams(sess[i].row), nextId, clock)
            IN /\ conn' = [open |-> TRUE, tbl |-> res.tbl, failed |-> ~res.ok]
               /\ sess' = [sess EXCEPT ![i].pc = IF res.ok THEN "commit" ELSE "rollback",
                                       ![i].joined = conn.open]
               /\ nextId' = nextId + 1
    /\ clock' = clock + 1
    /\ last' = [op |-> "cur.execute", by |-> i]
    /\ UNCHANGED <<employees, payroll, ui>>

(* the with block ends normally: conn.commit() *)
upsert_commit(i) ==
    /\ sess[i].pc = "commit"
    /\ payroll' = IF conn.open /\ ~conn.failed THEN conn.tbl ELSE payroll
    /\ conn' = Idle
    /\ sess' = [sess EXCEPT ![i].pc = "done"]
    /\ last' = [op |-> "conn.commit", by |-> i]
    /\ UNCHANGED <<employees, nextId, clock, ui>>

(* the with block ends by the exception: conn.rollback() *)
upsert_rollback(i) ==
    /\ sess[i].pc = "rollback"
    /\ conn' = Idle
    /\ sess' = [sess EXCEPT ![i].pc = "done"]
    /\ last' = [op |-> "conn.rollback", by |-> i]
    /\ UNCHANGED <<employees, payroll, nextId, clock, ui>>

NextConc == \E i \in Callers : upsert_execute(i) \/ upsert_commit(i) \/ upsert_rollback(i)

SpecConc == InitConc /\ [][NextConc]_vars

(* ---------------- main: the sidebar and the admin gate ---------------- *)
Modes == {"Employee Self-Service", "Admin"}

Secrets == {None, Str(<<>>), Str(<<"p", "w">>)}

Passwords == {<<>>, <<"p", "w">>, <<"a">>}

(* expected = st.secrets.get("ADMIN_PASSWORD"); pwd is the sidebar text *)
admin_gate(pwd, expected) == IF Truthy(expected) THEN Str(pwd) = expected ELSE pwd # <<>>

(* main is past `if not admin_gate(): return` and renders the admin tabs *)
AdminOpen == ui.mode = "Admin" /\ admin_gate(ui.pwd, ui.secret)

InitApp ==
    /\ \E secret \in Secrets : ui = Sidebar(secret, "Employee Self-Service", <<>>)
    /\ conn = Idle
    /\ sess = <<>>
    /\ employees = {}
    /\ payroll = {}
    /\ nextId = 1
    /\ clock = 0
    /\ last = [op |-> "init_db"]

(* a sidebar widget changes and main runs again: in Admin mode it returns *)
(* at the gate or renders the tabs, no button being pressed               *)
main_rerun(mode, pwd) ==
    /\ ui' = [ui EXCEPT !.mode = mode, !.pwd = pwd]
    /\ last' = [op |-> "main", returned |-> (mode = "Admin" /\ ~admin_gate(pwd, ui.secret))]
    /\ UNCHANGED <<employees, payroll, nextId, clock, conn, sess>>

(* SELECT emp_id, full_name, position, department FROM employees WHERE   *)
(* emp_id=%s: the dictionaries of the rows found, none if the id is not   *)
(* stored                                                                 *)
get_employee(emps, emp_id) ==
    {[emp_id |-> Str(e.emp_id), full_name |-> Str(e.full_name), position |-> e.position,
      department |-> e.department] : e \in {x \in emps : x.emp_id = emp_id}}

(* a payroll row as a dictionary: NUMERIC columns read as Decimal *)
ToDict(r) ==
    [f \in MoneySet |-> Dec(r[f])]
    @@ [id |-> r.id, emp_id |-> Str(r.emp_id), period_start |-> Date(r.period_start),
        period_end |-> Date(r.period_end), notes |-> r.notes, created_at |-> r.created_at]

list_payroll_df_Everyone(tbl, emp_id) == {ToDict(r) : r \in tbl}

(* SELECT * FROM payroll WHERE emp_id=%s: the rows of the frame *)
list_payroll_df(tbl, emp_id) == {ToDict(r) : r \in {x \in tbl : x.emp_id = emp_id}}

(* the self-service branch for the id typed and the period picked in the  *)
(* selectbox: what it shows and the calls of make_payslip_pdf it makes    *)
SelfService(emps, tbl, emp_id, period, now) ==
    LET emp == get_employee(emps, emp_id)
        df == list_payroll_df(tbl, emp_id)
        rows == {r \in df : <<r.period_start, r.period_end>> = period}
    IN IF emp_id = <<>> THEN {[shown |-> "", calls |-> <<>>]}
       ELSE IF emp = {} THEN {[shown |-> "Employee ID not found.", calls |-> <<>>]}
       ELSE IF df = {} THEN {[shown |-> "No payroll records found.", calls |-> <<>>]}
       ELSE {[shown |-> "Download PDF Payslip",
              calls |-> <<[payroll_row |-> row, employee_row |-> e, metrics |-> DashboardTotals(row),
                           pdf |-> make_payslip_pdf(row, e, now).ops]>>] : row \in rows, e \in emp}

TypedIds == EmpIds \cup {<<>>, E1Padded}

self_service(emp_id, period) ==
    /\ ui.mode = "Employee Self-Service"
    /\ \E out \in SelfService(employees, payroll, emp_id, period, clock) :
          last' = [op |-> "self_service", emp_id |-> emp_id, shown |-> out.shown, calls |-> out.calls]
    /\ UNCHANGED <<employees, payroll, nextId, clock, ui, conn, sess>>

(* the buttons of the four admin tabs, reached only past the gate *)
save_employee == AdminOpen /\ \E e \in EmpIds : upsert_employee(e, ProfileB)

upload_employees ==
    /\ AdminOpen
    /\ \E df \in {d \in EmpSheets : d.columns # RequiredEmployeeColumns} : import_employees_from_df(df)

delete_selected_employee ==
    /\ AdminOpen
    /\ \E e \in {x.emp_id : x \in employees} : delete_employee(e)

save_payroll ==
    /\ AdminOpen
    /\ \E row \in {r \in PayrollInputs : r.notes = RowA.notes /\ r.period_end = Date(1)} :
          /\ \E e \in employees : e.emp_id = row.emp_id.s
          /\ insert_or_update_payroll(row)

upload_payroll ==
    /\ AdminOpen
    /\ \E df \in {d \in Sheets : d.columns = PayrollColumns /\ Len(d.rows) <= 1} : import_payroll_from_df(df)

delete_payroll_row ==
    /\ AdminOpen
    /\ payroll # {}
    /\ \E id \in 1..MaxClock : delete_payroll(id)

merge_button == AdminOpen /\ merge_duplicate_payroll

NextApp ==
    \/ \E mode \in Modes, pwd \in Passwords : main_rerun(mode, pwd)
    \/ \E e \in TypedIds, p \in Periods : self_service(e, <<Date(p[1]), Date(p[2])>>)
    \/ save_employee
    \/ upload_employees
    \/ delete_selected_employee
    \/ save_payroll
    \/ upload_payroll
    \/ delete_payroll_row
    \/ merge_button

SpecApp == InitApp /\ [][NextApp]_vars

(* ----------------- the helpers applied to sampled values -------------- *)
Missing == [kind |-> "missing"]

NumSamples == {0, 5, 99999, 100000, 123450, -123450, 100000000}

FractionFits(s) ==
    LET dots == {i \in 1..Len(s) : s[i] = "."}
        p == IF dots = {} THEN Len(s) ELSE CHOOSE i \in dots : \A j \in dots : i <= j
    IN Len(s) - p <= Decimals \/ \E i \in (p + 1)..Len(s) : ~IsDigit(s[i])

RawValues ==
    {None, FloatNaN, Dec(NaN)} \cup {Num(c) : c \in NumSamples} \cup {Dec(F(c)) : c \in NumSamples}
    \cup {Str(s) : s \in {q \in SeqsUpTo(Alphabet, MaxStrLen) : FractionFits(q)}}

WithField(base, field, val) ==
    IF val = Missing THEN [k \in (DOMAIN base) \ {field} |-> base[k]]
    ELSE [k \in DOMAIN base |-> IF k = field THEN val ELSE base[k]]

InitUtil ==
    /\ Quiet
    /\ employees = {}
    /\ payroll = {}
    /\ nextId = 1
    /\ clock = 0
    /\ \E val \in RawValues \cup {Missing}, field \in MoneySet, base \in {RowA, RowB} :
          last = [op |-> "input", val |-> val, field |-> field, base |-> base]

call_to_float ==
    /\ last.op = "input"
    /\ last.val # Missing
    /\ last' = [op |-> "to_float", val |-> last.val, ret |-> to_float(last.val)]
    /\ UNCHANGED <<employees, payroll, nextId, clock>>
    /\ UNCHANGED aux

call_peso ==
    /\ last.op = "input"
    /\ last.val # Missing
    /\ last' = [op |-> "peso", val |-> last.val, ret |-> peso(last.val)]
    /\ UNCHANGED <<employees, payroll, nextId, clock>>
    /\ UNCHANGED aux

self_service_totals ==
    /\ last.op = "input"
    /\ LET row == WithField(last.base, last.field, last.val)
       IN last' = [op |-> "totals", val |-> last.val, field |-> last.field, row |-> row,
                   dash |-> DashboardTotals(row), slip |-> SlipTotals(row)]
    /\ UNCHANGED <<employees, payroll, nextId, clock>>
    /\ UNCHANGED aux

NextUtil == call_to_float \/ call_peso \/ self_service_totals

SpecUtil == InitUtil /\ [][NextUtil]_vars

(* ------------------- the payslip of sampled records ------------------- *)
SlipNotes == {None, Missing, Str(<<>>), Str(<<" ">>), Str(<<" ", "a", " ">>), Str(<<"o", "k">>)}

(* records whose amounts are all zero, all null, all missing, or a mix *)
ZeroRows ==
    {[f \in MoneySet |-> Num(0)], [f \in MoneySet |-> Dec(F(0))], [f \in MoneySet |-> None],
     [f \in {"basic_pay", "tax"} |-> IF f = "tax" THEN None ELSE Dec(F(0))],
     [notes |-> None]}

SlipPayrollRows ==
    {WithField(base @@ [emp_id |-> Str(E1), period_start |-> Date(p[1]), period_end |-> Date(p[2]),
                        notes |-> None],
               "notes", n) : base \in RowSamples \cup ZeroRows, n \in SlipNotes, p \in Periods}

OptionalTexts == {None, Missing, Str(<<>>), Str(<<"D", "e", "v">>)}

SlipEmployees ==
    {WithField(WithField([emp_id |-> Str(E1), full_name |-> ProfileA.full_name,
                          position |-> None, department |-> None], "position", p), "department", d) :
        p \in OptionalTexts, d \in OptionalTexts}

InitSlip ==
    /\ Quiet
    /\ employees = {}
    /\ payroll = {}
    /\ nextId = 1
    /\ clock \in {0, 1}
    /\ \E row \in SlipPayrollRows, emp \in SlipEmployees :
          last = [op |-> "input", payroll_row |-> row, employee_row |-> emp]

call_make_payslip_pdf ==
    /\ last.op = "input"
    /\ LET out == make_payslip_pdf(last.payroll_row, last.employee_row, clock)
       IN last' = [op |-> "make_payslip_pdf", payroll_row |-> last.payroll_row,
                   employee_row |-> last.employee_row, pdf |-> out.ops, y |-> out.y,
                   raised |-> out.raised, prior |-> <<>>]
    /\ UNCHANGED <<employees, payroll, nextId, clock>>
    /\ UNCHANGED aux

(* the button pressed once more for the same records, in the same minute  *)
(* (dt = 0) or a later one; prior keeps what the call before produced     *)
call_make_payslip_pdf_again(dt) ==
    /\ last.op = "make_payslip_pdf"
    /\ last.prior = <<>>
    /\ clock' = clock + dt
    /\ LET out == make_payslip_pdf(last.payroll_row, last.employee_row, clock + dt)
       IN last' = [op |-> "make_payslip_pdf", payroll_row |-> last.payroll_row,
                   employee_row |-> last.employee_row, pdf |-> out.ops, y |-> out.y,
                   raised |-> out.raised, prior |-> <<[pdf |-> last.pdf, raised |-> last.raised]>>]
    /\ UNCHANGED <<employees, payroll, nextId>>
    /\ UNCHANGED aux

NextSlip == call_make_payslip_pdf \/ \E dt \in {0, 1} : call_make_payslip_pdf_again(dt)

SpecSlip == InitSlip /\ [][NextSlip]_vars

(* ============================ properties ============================== *)
KeyOf(row) == <<row.emp_id.s, row.period_start.d, row.period_end.d>>

RowsFor(tbl, k) == {r \in tbl : Key(r) = k}

GroupOf(tbl, r) == {q \in tbl : Key(q) = Key(r)}

NoDup(tbl) == \A r, q \in tbl : Key(r) = Key(q) => r.id = q.id

UpsertOnExisting == last.op = UPSERT /\ RowsFor(last.pre, KeyOf(last.row)) # {}

(* C1: the payroll table never holds two rows with the same (emp_id,      *)
(* period_start, period_end), and an upsert for a key that already has a  *)
(* row adds none: that key still has exactly one row.                     *)
C1_OneRowPerKey ==
    /\ \A r, q \in payroll : Key(r) = Key(q) => r = q
    /\ UpsertOnExisting =>
          /\ Cardinality(RowsFor(payroll, KeyOf(last.row))) = 1
          /\ Cardinality(payroll) = Cardinality(last.pre)

C1_Witness == UpsertOnExisting /\ last.ok

(* C2: after an upsert for an existing key the stored row carries, in     *)
(* every monetary field and in notes, the coerced values of that call.    *)
C2_NewerValuesWin ==
    UpsertOnExisting =>
        \A r \in RowsFor(payroll, KeyOf(last.row)) :
            /\ \A f \in MoneySet : r[f] = to_float(last.row[f])
            /\ r.notes = IF Truthy(last.row.notes) THEN last.row.notes ELSE None

C2_Witness ==
    /\ UpsertOnExisting
    /\ \E old \in RowsFor(last.pre, KeyOf(last.row)), r \in RowsFor(payroll, KeyOf(last.row)) :
          /\ \A f \in MoneySet : old[f] # r[f]
          /\ old.notes # r.notes

(* C3: an upsert for an existing key sets the stored row's created_at to  *)
(* the time of the upsert.                                                *)
C3_CreatedAtRefreshed ==
    UpsertOnExisting => \A r \in RowsFor(payroll, KeyOf(last.row)) : r.created_at = last.now

Amount(row, k) == to_float(Get(row, k))

AllFinite(row) == \A f \in MoneySet : ~Amount(row, f).nan

(* C4: gross is basic_pay + overtime_pay + allowances + bonus, total      *)
(* deductions is sss + philhealth + pagibig + undertime + late +          *)
(* other_deductions + tax, net is their difference with no floor at zero, *)
(* and the dashboard and the payslip agree on all three.                  *)
C4_NetIsGrossMinusDeductions ==
    last.op = "totals" =>
        LET row == last.row
            g == Amount(row, "basic_pay").c + Amount(row, "overtime_pay").c
                 + Amount(row, "allowances").c + Amount(row, "bonus").c
            d == Amount(row, "sss").c + Amount(row, "philhealth").c + Amount(row, "pagibig").c
                 + Amount(row, "undertime").c + Amount(row, "late").c
                 + Amount(row, "other_deductions").c + Amount(row, "tax").c
        IN /\ last.dash = last.slip
           /\ AllFinite(row) =>
                 /\ last.slip.gross = F(g)
                 /\ last.slip.deductions = F(d)
                 /\ last.slip.net = F(g - d)
                 /\ (d > g => last.slip.net.c < 0)

C4_Witness == last.op = "totals" /\ AllFinite(last.row) /\ last.slip.net.c < 0 /\ last.slip.gross.c > 0

NotANumber(val) ==
    CASE val.kind \in {"missing", "none"} -> TRUE
      [] val.kind \in {"float", "decimal"} -> val.f.nan
      [] val.kind = "str" -> LET r == ParseFloat(RemoveCommas(Strip(val.s))) IN r.raised \/ r.f.nan

ZeroedRow(row, field) == [k \in (DOMAIN row) \cup {field} |-> IF k = field THEN Num(0) ELSE row[k]]

(* C5: to_float returns a float, and 0.0 for every value that is missing, *)
(* null, NaN, blank or not a number; a row with such a value in a field   *)
(* has the gross and total deductions of the row with that field at 0.    *)
C5_CoercesToZero ==
    /\ last.op = "to_float" =>
          /\ last.ret \in [nan : BOOLEAN, c : Int]
          /\ NotANumber(last.val) => last.ret = F(0)
    /\ (last.op = "totals" /\ NotANumber(last.val)) =>
          /\ last.slip.gross = SlipTotals(ZeroedRow(last.row, last.field)).gross
          /\ last.slip.deductions = SlipTotals(ZeroedRow(last.row, last.field)).deductions

PesoShaped(out) ==
    /\ Len(out) >= 5
    /\ out[1] = "₱"
    /\ LET b == Tail(out)
           m == IF b[1] = "-" THEN Tail(b) ELSE b
           n == Len(m)
       IN /\ n >= 4
          /\ m[n - 2] = "."
          /\ IsDigit(m[n - 1])
          /\ IsDigit(m[n])
          /\ m[1] # ","
          /\ \A i \in 1..(n - 3) : IF (n - 2 - i) % 4 = 0 THEN m[i] = "," ELSE IsDigit(m[i])

C7_KeepLatest ==
    last.op = MERGE =>
        /\ payroll \subseteq last.pre
        /\ \A r \in last.pre : (r \in payroll) <=> (\A q \in GroupOf(last.pre, r) : q.id <= r.id)

C7_Witness ==
    /\ last.op = MERGE
    /\ \E r \in last.pre, q \in last.pre :
          /\ Cardinality(GroupOf(last.pre, r)) >= 3
          /\ Key(q) = Key(r) /\ q.basic_pay # r.basic_pay

(* C8: the number merge_duplicate_payroll returns is the number of rows   *)
(* it removed, the sum of (size - 1) over the groups; a row alone in its  *)
(* group stays.                                                           *)
C8_RemovedCount ==
    last.op = MERGE =>
        /\ last.ret = Cardinality(last.pre) - Cardinality(payroll)
        /\ last.ret = Cardinality(last.pre) - Cardinality({Key(r) : r \in last.pre})
        /\ \A r \in last.pre : Cardinality(GroupOf(last.pre, r)) = 1 => r \in payroll

C8_Witness ==
    /\ last.op = MERGE
    /\ last.ret > 0
    /\ \E r \in last.pre : Cardinality(GroupOf(last.pre, r)) = 1

(* C9: a merge_duplicate_payroll that directly follows another returns 0  *)
(* and changes no row.                                                    *)
C9_Idempotent ==
    (last.op = MERGE /\ last.prior # <<>>) => (last.ret = 0 /\ payroll = last.pre)

C9_Witness == last.op = MERGE /\ last.prior # <<>> /\ last.prior[1] > 0

(* C10: merge_duplicate_payroll leaves the employees as they were, and on *)
(* a table without two rows of the same key it returns 0 and leaves every *)
(* row, with its fields and created_at, as it was.                        *)
C10_NoOpWithoutDuplicates ==
    last.op = MERGE =>
        /\ employees = last.preEmp
        /\ NoDup(last.pre) => (last.ret = 0 /\ payroll = last.pre)

C10_Witness ==
    /\ last.op = MERGE
    /\ last.prior = <<>>
    /\ NoDup(last.pre)
    /\ Cardinality(last.pre) >= 2
    /\ employees # {}

TrimmedKey(r) == <<Strip(r.emp_id), r.period_start, r.period_end>>

(* C11: merge_duplicate_payroll groups by (emp_id trimmed, period_start,  *)
(* period_end): after it no two rows are left whose emp_ids differ only   *)
(* by leading or trailing blanks and whose period dates are the same.     *)
C11_GroupsByTrimmedId ==
    last.op = MERGE => \A r, q \in payroll : TrimmedKey(r) = TrimmedKey(q) => r = q

(* the table the merge in progress, or the last one, started from *)
MergeBase ==
    IF sess # <<>> THEN sess[1].pre
    ELSE IF last.op \in {MERGE, MERGE_ABORTED} THEN last.pre ELSE payroll

Surplus(tbl, r) == {q \in GroupOf(tbl, r) : \E k \in GroupOf(tbl, r) : k.id > q.id}

(* C12: at no moment, while merge_duplicate_payroll runs, after it        *)
(* returned or after it failed midway, does the table hold some but not   *)
(* all of a group's surplus rows; after a failure the table is as before. *)
C12_AtomicMerge ==
    /\ \A r \in MergeBase :
          \/ Surplus(MergeBase, r) \subseteq payroll
          \/ Surplus(MergeBase, r) \cap payroll = {}
    /\ last.op = MERGE_ABORTED => payroll = last.pre

C12_Witness ==
    /\ last.op = MERGE_ABORTED
    /\ \E r \in last.done : ~(Surplus(last.pre, r) \subseteq last.done)

(* C13: delete_employee(emp_id) leaves no employee and no payroll row of  *)
(* that id, and every employee and payroll row of another id as it was.   *)
C13_DeleteCascades ==
    last.op = "delete_employee" =>
        /\ \A e \in employees : e.emp_id # last.emp_id
        /\ \A r \in payroll : r.emp_id # last.emp_id
        /\ \A e \in last.preEmp : e.emp_id # last.emp_id => e \in employees
        /\ \A r \in last.pre : r.emp_id # last.emp_id => r \in payroll
        /\ employees \subseteq last.preEmp
        /\ payroll \subseteq last.pre

C13_Witness ==
    /\ last.op = "delete_employee"
    /\ Cardinality({r \in last.pre : r.emp_id = last.emp_id}) >= 2
    /\ payroll # {}
    /\ Cardinality(employees) >= 2

BothDone == Len(sess) = 2 /\ \A i \in Callers : sess[i].pc = "done"

SameKnownKey ==
    /\ KeyOf(sess[1].row) = KeyOf(sess[2].row)
    /\ \E e \in employees : e.emp_id = sess[1].row.emp_id.s

(* C14: when two callers have upserted the same key of a known employee,  *)
(* in whatever order their statements and commits fell, the table holds   *)
(* exactly one row of that key, and all its monetary fields and notes are *)
(* those of one and the same caller.                                      *)
C14_OneRowOfOneCaller ==
    (BothDone /\ SameKnownKey) =>
        /\ Cardinality(RowsFor(payroll, KeyOf(sess[1].row))) = 1
        /\ \A r \in RowsFor(payroll, KeyOf(sess[1].row)) :
              \E i \in Callers :
                  \A f \in MoneySet \cup {"notes"} : r[f] = PayrollParams(sess[i].row)[f]

C14_Witness ==
    /\ BothDone
    /\ SameKnownKey
    /\ \E i \in Callers : sess[i].joined
    /\ \A f \in MoneySet \cup {"notes"} :
          PayrollParams(sess[1].row)[f] # PayrollParams(sess[2].row)[f]

PasswordMatches == ui.mode = "Admin" /\ Truthy(ui.secret) /\ ui.secret = Str(ui.pwd)

(* C15: a run of main changes employee or payroll data, or gets as far as *)
(* a statement that could, only in Admin mode with the sidebar password   *)
(* equal to the configured ADMIN_PASSWORD.                                *)
C15_OnlyBehindPassword ==
    [][~PasswordMatches => (employees' = employees /\ payroll' = payroll /\ nextId' = nextId)]_vars

(* ------------------------- reading a payslip --------------------------- *)
Made == last.op = "make_payslip_pdf"

IsDrawn(o) == o.op \in {"drawString", "drawRightString"}

Rules(ops) == {i \in 1..Len(ops) : ops[i].op = "line"}

(* the index of the k-th rule, 0 if there are fewer *)
NthRule(ops, k) ==
    IF \E i \in Rules(ops) : Cardinality({j \in Rules(ops) : j < i}) = k - 1
    THEN CHOOSE i \in Rules(ops) : Cardinality({j \in Rules(ops) : j < i}) = k - 1
    ELSE 0

(* where the employee block starts: its first label *)
BlockStart(ops) ==
    IF \E i \in 1..Len(ops) : IsDrawn(ops[i]) /\ ops[i].text = Lit("Employee Name:")
    THEN CHOOSE i \in 1..Len(ops) : IsDrawn(ops[i]) /\ ops[i].text = Lit("Employee Name:")
    ELSE Len(ops) + 1

(* the texts drawn after position a and before position b, in order *)
DrawnBetween(ops, a, b) == SelectSeq(SubSeq(ops, a + 1, b - 1), IsDrawn)

TopDown(lines) == \A i \in 1..Len(lines), j \in 1..Len(lines) : i < j => lines[i].y > lines[j].y

FilledIn(field) == field.value # ""

CompanyFields ==
    SelectSeq(<<[value |-> COMPANY_NAME, text |-> Lit(COMPANY_NAME)],
                [value |-> COMPANY_DEPT, text |-> Lit(COMPANY_DEPT)],
                [value |-> COMPANY_ADDRESS, text |-> Lit(COMPANY_ADDRESS)],
                [value |-> COMPANY_TIN, text |-> Format("TIN: {}", <<COMPANY_TIN>>)]>>, FilledIn)

(* C16: above the employee block the payslip shows the non-empty ones of  *)
(* company name, department, address and "TIN: {value}", in this order,   *)
(* each on a line of its own below the one before, then at most one rule, *)
(* below them, and a rule only if a header line was drawn.                *)
C16_HeaderLines ==
    Made =>
        LET head == SubSeq(last.pdf, 1, BlockStart(last.pdf) - 1)
            lines == SelectSeq(head, IsDrawn)
        IN /\ Len(lines) = Len(CompanyFields)
           /\ \A i \in 1..Len(lines) :
                 /\ lines[i].op = "drawString"
                 /\ lines[i].text = CompanyFields[i].text
                 /\ lines[i].x = X0
           /\ TopDown(lines)
           /\ Cardinality(Rules(head)) <= 1
           /\ Rules(head) # {} => Len(lines) >= 1
           /\ \A r \in Rules(head) : \A i \in 1..Len(lines) : head[r].y1 < lines[i].y

C16_Witness ==
    /\ Made
    /\ Rules(SubSeq(last.pdf, 1, BlockStart(last.pdf) - 1)) # {}
    /\ Len(CompanyFields) = 2
    /\ Len(DrawnBetween(last.pdf, 0, BlockStart(last.pdf))) = 2

Filled(row, k) == k \in DOMAIN row /\ row[k].kind = "str" /\ row[k].s # <<>>

(* the label-value lines claimed for a record, as <<label, value text>> *)
ClaimedBlock(payroll_row, employee_row) ==
    << <<"Employee Name:", Format("{}", <<employee_row.full_name.s>>)>>,
       <<"Employee ID:", Format("{}", <<employee_row.emp_id.s>>)>> >>
    \o (IF Filled(employee_row, "position")
        THEN << <<"Position:", Format("{}", <<employee_row.position.s>>)>> >> ELSE <<>>)
    \o (IF Filled(employee_row, "department")
        THEN << <<"Department:", Format("{}", <<employee_row.department.s>>)>> >> ELSE <<>>)
    \o << <<"Pay Period:", Format("{} to {}", <<DateIso(payroll_row.period_start.d),
                                                 DateIso(payroll_row.period_end.d)>>)>> >>

(* C17: the employee block is the lines Employee Name, Employee ID,       *)
(* Position iff non-empty, Department iff non-empty, Pay Period "{start}  *)
(* to {end}", in this order, label and value on one line, and every line  *)
(* is the same fixed step below the one before.                           *)
C17_EmployeeBlock ==
    Made =>
        LET drawn == DrawnBetween(last.pdf, BlockStart(last.pdf) - 1, NthRule(last.pdf, 2))
            want == ClaimedBlock(last.payroll_row, last.employee_row)
        IN /\ Len(drawn) = 2 * Len(want)
           /\ \A i \in 1..Len(want) :
                 /\ drawn[2 * i - 1].text = Lit(want[i][1])
                 /\ drawn[2 * i].text = want[i][2]
                 /\ drawn[2 * i - 1].y = drawn[2 * i].y
                 /\ drawn[2 * i - 1].x = X0
                 /\ drawn[2 * i].x > X0
           /\ \A i \in 1..(Len(want) - 1) : drawn[2 * i - 1].y - drawn[2 * i + 1].y = 12 * Pt

C17_Witness ==
    /\ Made
    /\ Filled(last.employee_row, "position")
    /\ Filled(last.employee_row, "department")
    /\ Len(DrawnBetween(last.pdf, BlockStart(last.pdf) - 1, NthRule(last.pdf, 2))) = 10

ClaimedEarnings ==
    << <<"Basic Pay", "basic_pay">>, <<"Overtime Pay", "overtime_pay">>,
       <<"Allowances", "allowances">>, <<"Bonus", "bonus">> >>

ClaimedDeductions ==
    << <<"SSS", "sss">>, <<"PhilHealth", "philhealth">>, <<"Pag-IBIG", "pagibig">>,
       <<"Undertime", "undertime">>, <<"Late", "late">>,
       <<"Other Deductions", "other_deductions">>, <<"Withholding Tax", "tax">> >>

InLeftColumn(o) == o.x < Width \div 2

InRightColumn(o) == o.x > Width \div 2

(* drawn is label, value, label, value ...: the rows claimed, one step    *)
(* apart from the line top on                                             *)
ColumnShows(drawn, claimed, row, top) ==
    /\ Len(drawn) = 2 * Len(claimed)
    /\ \A i \in 1..Len(claimed) :
          /\ drawn[2 * i - 1].text = Lit(claimed[i][1])
          /\ drawn[2 * i].text = Format("{}", <<peso([kind |-> "float", f |-> to_float(Get(row, claimed[i][2]))])>>)
          /\ drawn[2 * i].op = "drawRightString"
          /\ drawn[2 * i - 1].y = top - (i - 1) * 12 * Pt
          /\ drawn[2 * i].y = top - (i - 1) * 12 * Pt

(* C18: between the second and the third rule the payslip shows the       *)
(* earnings Basic Pay, Overtime Pay, Allowances, Bonus on the left and    *)
(* the deductions SSS, PhilHealth, Pag-IBIG, Undertime, Late, Other       *)
(* Deductions, Withholding Tax on the right, each with the peso text of   *)
(* its coerced field; each column runs down from the same first line by   *)
(* its own rows, and the third rule lies below the line that follows the  *)
(* last row of the longer column.                                         *)
C18_Table ==
    Made =>
        LET drawn == DrawnBetween(last.pdf, NthRule(last.pdf, 2), NthRule(last.pdf, 3))
            rows == SubSeq(drawn, 3, Len(drawn))
            top == drawn[1].y - 12 * Pt
            rule == last.pdf[NthRule(last.pdf, 3)]
        IN /\ drawn[1].text = Lit("EARNINGS") /\ InLeftColumn(drawn[1])
           /\ drawn[2].text = Lit("DEDUCTIONS") /\ ~InLeftColumn(drawn[2])
           /\ drawn[2].y = drawn[1].y
           /\ \A i \in 1..Len(rows) : InLeftColumn(rows[i]) \/ InRightColumn(rows[i])
           /\ ColumnShows(SelectSeq(rows, InLeftColumn), ClaimedEarnings, last.payroll_row, top)
           /\ ColumnShows(SelectSeq(rows, InRightColumn), ClaimedDeductions, last.payroll_row, top)
           /\ rule.y1 = rule.y2
           /\ rule.y1 = Min(top - Len(ClaimedEarnings) * 12 * Pt, top - Len(ClaimedDeductions) * 12 * Pt) - 10 * Pt
           /\ \A i \in 1..Len(rows) : rule.y1 < rows[i].y

C18_Witness ==
    /\ Made
    /\ Get(last.payroll_row, "basic_pay") = RowA.basic_pay
    /\ \E i \in 1..Len(last.pdf) :
          /\ last.pdf[i].op = "drawRightString"
          /\ last.pdf[i].text = Format("{}", <<<<"₱", "7", "5", ",", "0", "0", "0", ".", "0", "0">>>>)
          /\ last.pdf[i].x < Width \div 2
          /\ i < NthRule(last.pdf, 3)

NotesLines(ops) == {i \in 1..Len(ops) : IsDrawn(ops[i]) /\ ops[i].text.fmt = "Notes: {}"}

NotBlank(row) ==
    /\ "notes" \in DOMAIN row
    /\ row.notes.kind = "str"
    /\ \E i \in 1..Len(row.notes.s) : row.notes.s[i] # " "

(* C19: the payslip has a line "Notes: {notes}", and just one, exactly    *)
(* when the record's notes hold something other than blanks; notes that   *)
(* are null, missing, empty or all blanks give no such line.              *)
C19_NotesLine ==
    Made =>
        /\ NotesLines(last.pdf) # {} <=> NotBlank(last.payroll_row)
        /\ Cardinality(NotesLines(last.pdf)) <= 1
        /\ \A i \in NotesLines(last.pdf) :
              Strip(last.pdf[i].text.args[1]) = Strip(last.payroll_row.notes.s)

C19_Witness ==
    /\ Made
    /\ NotesLines(last.pdf) # {}
    /\ last.payroll_row.notes = Str(<<" ", "a", " ">>)

FooterLines(ops) == {i \in 1..Len(ops) : IsDrawn(ops[i]) /\ ops[i].text.fmt = FOOTER}

(* C20: every payslip has exactly one footer line, and it is at the left  *)
(* margin 12 mm above the page bottom wherever the cursor y has got to.   *)
C20_FooterFixed ==
    Made =>
        /\ Cardinality(FooterLines(last.pdf)) = 1
        /\ \A i \in FooterLines(last.pdf) :
              /\ last.pdf[i].y = 12 * Mm
              /\ last.pdf[i].x = X0

C20_Witness ==
    /\ Made
    /\ FooterLines(last.pdf) # {}
    /\ NotesLines(last.pdf) # {}
    /\ Filled(last.employee_row, "position")
    /\ Filled(last.employee_row, "department")

(* ------------------------ a record of nothing -------------------------- *)
Blank(row, k) == k \notin DOMAIN row \/ row[k] = None \/ row[k] = Str(<<>>)

Zero(row, k) == k \notin DOMAIN row \/ row[k] \in {None, Num(0), Dec(F(0))}

NothingToShow(payroll_row, employee_row) ==
    /\ Blank(employee_row, "position")
    /\ Blank(employee_row, "department")
    /\ Blank(payroll_row, "notes")
    /\ \A f \in MoneySet : Zero(payroll_row, f)

(* the amount drawn next after the label *)
AmountAfter(ops, label) ==
    {ops[i + 1].text : i \in {j \in 1..(Len(ops) - 1) : IsDrawn(ops[j]) /\ ops[j].text = Lit(label)}}

(* C21: for an employee whose position and department are empty, null or  *)
(* missing and a record whose amounts and notes are all zero, null or     *)
(* missing, make_payslip_pdf does not raise, runs to the canvas's save,   *)
(* and the amounts shown for gross pay, total deductions and net pay are  *)
(* each "₱0.00".                                                          *)
C21_RendersNothingToShow ==
    (Made /\ NothingToShow(last.payroll_row, last.employee_row)) =>
        /\ ~last.raised
        /\ last.pdf[Len(last.pdf)].op = "save"
        /\ AmountAfter(last.pdf, "Gross Pay:") = {Format("{}", <<PesoZero>>)}
        /\ AmountAfter(last.pdf, "Total Deductions:") = {Format("{}", <<PesoZero>>)}
        /\ AmountAfter(last.pdf, "NET PAY:") = {Format("{}", <<PesoZero>>)}

C21_Witness ==
    /\ Made
    /\ NothingToShow(last.payroll_row, last.employee_row)
    /\ "position" \notin DOMAIN last.employee_row
    /\ "department" \in DOMAIN last.employee_row
    /\ last.employee_row.department = None
    /\ "basic_pay" \in DOMAIN last.payroll_row
    /\ "sss" \notin DOMAIN last.payroll_row
    /\ last.payroll_row.tax = None
    /\ AmountAfter(last.pdf, "NET PAY:") = {Format("{}", <<PesoZero>>)}

(* ----------------------- two payslips of one record -------------------- *)
Twice == Made /\ last.prior # <<>>

(* a canvas call with the timestamp of a footer line blanked out *)
Undated(o) == IF IsDrawn(o) /\ o.text.fmt = FOOTER THEN [o EXCEPT !.text.args = <<>>] ELSE o

Served == last.op = "self_service"

HasRecords(emp_id) ==
    /\ \E e \in employees : e.emp_id = emp_id
    /\ \E r \in payroll : r.emp_id = emp_id

(* C23: Employee Self-Service calls make_payslip_pdf only for a typed id  *)
(* that is the id of a stored employee with at least one payroll row, and *)
(* passes it that employee and a payroll row of that employee; for an id  *)
(* not stored, or stored without payroll rows, it composes nothing.       *)
C23_ChecksBeforeComposing ==
    Served =>
        /\ last.calls # <<>> => HasRecords(last.emp_id)
        /\ \A i \in 1..Len(last.calls) :
              /\ last.calls[i].employee_row.emp_id = Str(last.emp_id)
              /\ last.calls[i].payroll_row.emp_id = Str(last.emp_id)
              /\ \E r \in payroll : r.id = last.calls[i].payroll_row.id /\ r.emp_id = last.emp_id

C23_Witness ==
    /\ Served
    /\ last.calls # <<>>
    /\ Len(last.calls[1].pdf) > 0
    /\ \E e \in employees : e.emp_id # last.emp_id

(* ------------------------------ imports -------------------------------- *)
Imported == last.op \in {"import_employees_from_df", "import_payroll_from_df"} /\ ~last.raised

(* an empty cell: pandas reads it as NaN (None in an object column) *)
MissingCell(v) == v \in {None, FloatNaN}

RequiredOf(op) == IF op = "import_employees_from_df" THEN RequiredEmployeeColumns ELSE RequiredPayrollColumns

(* the rows of the sheet with a required value missing *)
RowsMissingId(op, df) == {i \in 1..Len(df.rows) : \E c \in RequiredOf(op) : MissingCell(df.rows[i][c])}

Skips(msgs) == {i \in 1..Len(msgs) : msgs[i] = "Skipped a row"}

(* the identifier a sheet row would be stored under *)
IdOfRow(r) == Strip(PyStr(r.emp_id))

(* C24: an import skips every row with a missing emp_id or full_name      *)
(* (employees), emp_id, period_start or period_end (payroll): each such   *)
(* row adds a "Skipped a row" message, is not counted in the returned     *)
(* total, and nothing is stored under it.                                 *)
C24_MissingRowsSkipped ==
    Imported =>
        LET bad == RowsMissingId(last.op, last.df)
        IN /\ Cardinality(Skips(last.ret[2])) >= Cardinality(bad)
           /\ last.ret[1] <= Len(last.df.rows) - Cardinality(bad)
           /\ last.op = "import_employees_from_df" =>
                 \A e \in employees \ last.preEmp :
                    \E i \in (1..Len(last.df.rows)) \ bad : e.emp_id = IdOfRow(last.df.rows[i])
           /\ last.op = "import_payroll_from_df" =>
                 \A r \in payroll \ last.pre :
                    \E i \in (1..Len(last.df.rows)) \ bad : r.emp_id = IdOfRow(last.df.rows[i])

ImportCalled == last.op \in {"import_employees_from_df", "import_payroll_from_df"}

Names(seq) == {seq[i] : i \in 1..Len(seq)}

(* C25: for a sheet without one of the required columns (emp_id,          *)
(* full_name for employees; emp_id, period_start, period_end for payroll) *)
(* the import raises ValueError naming just the columns that are missing, *)
(* and employees and payroll are as they were before the call.            *)
C25_MissingColumnRaises ==
    (ImportCalled /\ ~(RequiredOf(last.op) \subseteq last.df.columns)) =>
        /\ last.raised
        /\ last.error.type = "ValueError"
        /\ Names(last.error.args[1]) = RequiredOf(last.op) \ last.df.columns
        /\ Len(last.error.args[1]) = Cardinality(RequiredOf(last.op) \ last.df.columns)
        /\ employees = last.preEmp
        /\ payroll = last.pre

C25_Witness ==
    /\ last.op = "import_employees_from_df"
    /\ last.raised
    /\ "full_name" \notin last.df.columns
    /\ Len(last.df.rows) = 2
    /\ last.df.rows[1] = EmpSheetGood
    /\ employees # {}

(* a sheet row the database can take: an id, two dates, a known employee *)
Persistable(r, emps) ==
    /\ r.period_start.kind = "date"
    /\ r.period_end.kind = "date"
    /\ \E e \in emps : e.emp_id = IdOfRow(r)

(* C26: import_payroll_from_df gives every row of the sheet one outcome:  *)
(* the count returned plus the number of messages is the number of rows;  *)
(* the count is the number of rows stored; every row that can be stored   *)
(* is in the table afterwards whatever failed before or after it, and no  *)
(* row that was in the table before is gone.                              *)
C26_EachRowOnce ==
    (last.op = "import_payroll_from_df" /\ ~last.raised) =>
        LET rows == last.df.rows
            good == {i \in 1..Len(rows) : Persistable(rows[i], employees)}
        IN /\ last.ret[1] + Len(last.ret[2]) = Len(rows)
           /\ last.ret[1] = Cardinality(good)
           /\ \A i \in good :
                 \E r \in payroll :
                    Key(r) = <<IdOfRow(rows[i]), rows[i].period_start.d, rows[i].period_end.d>>
           /\ \A q \in last.pre : \E r \in payroll : r.id = q.id

C26_Witness ==
    /\ last.op = "import_payroll_from_df"
    /\ ~last.raised
    /\ last.df.rows = <<SheetNoEmp, SheetGood>>
    /\ last.ret = <<1, <<"Row error">>>>
    /\ payroll # {}

(* ----------------------- payroll rows have owners ---------------------- *)
Owned(tbl, emps) == \A r \in tbl : \E e \in emps : e.emp_id = r.emp_id

UpsertForStranger ==
    /\ last.op = UPSERT
    /\ last.row.emp_id.kind = "str"
    /\ ~\E e \in last.preEmp : e.emp_id = last.row.emp_id.s

(* C27: whatever upserts, deletes, imports and merges have been made,     *)
(* every payroll row's emp_id is the emp_id of a stored employee; and an  *)
(* insert_or_update_payroll for an id no employee has is rejected, with   *)
(* employees and payroll left as they were.                               *)
C27_RowsHaveEmployees ==
    /\ Owned(payroll, employees)
    /\ UpsertForStranger => (~last.ok /\ payroll = last.pre /\ employees = last.preEmp)

C27_Witness ==
    /\ UpsertForStranger
    /\ payroll # {}
    /\ \E e \in employees : e.emp_id # last.row.emp_id.s

(* ---------------------- nothing to merge, ever ------------------------- *)
(* C28: in every state the application reaches from an empty database by  *)
(* its own operations, merge_duplicate_payroll has no duplicate group to  *)
(* work on: called there it removes no row and returns 0, and so did      *)
(* every call that was made.                                              *)
C28_NeverAnythingToMerge ==
    /\ MergeResult(payroll) = [tbl |-> payroll, ret |-> 0]
    /\ last.op = MERGE => (last.ret = 0 /\ payroll = last.pre)

C28_Witness ==
    /\ last.op = MERGE
    /\ last.ret = 0
    /\ payroll # {}
    /\ payroll = last.pre

====
